---- MODULE Spec2Model ----
(***************************************************************************)
(* The agent side of mcphost-example-cockpit (src/main.go): the session    *)
(* loop chatLoop, the prompt turn handlePrompt with its three engine       *)
(* callbacks, and the line codec recvMessage / sendMessage, composed with  *)
(* an unconstrained peer that writes lines to stdin and an unconstrained   *)
(* engine that calls the callbacks one at a time.                          *)
(***************************************************************************)
EXTENDS Integers, Sequences, FiniteSets

VARIABLES
    pc,             \* control position of the agent process: "ready" (main.go:125),
                    \* "recv" (130), "engine" (152, between callbacks), "gate" (161),
                    \* "exited" (main has ended), "killed" (ended by SIGPIPE)
    out,            \* lines written to stdout so far (wire form)
    stdoutOk,       \* the last write to stdout went through
    stdin,          \* lines written by the peer and not yet scanned
    stdinEnd,       \* "open", or how reading the stream ended: "eof", "err", or
                    \* "toolong" (the scanner has given up with ErrTooLong)
    nSent,          \* lines the peer has written so far
    promptCanceled, \* handlePrompt's local flag (main.go:149)
    promptCtxDone,  \* promptCtx.Err() is context.Canceled (main.go:150)
    ctxDone,        \* main's ctx is canceled (main.go:104, 114)
    promptErr,      \* err returned by PromptWithCallbacks (main.go:152)
    toolPending,    \* tool the engine has requested and not yet completed
    events,         \* engine callbacks started so far (chunks, tool calls)
    hostClosed,     \* host.Close() has run (main.go:120)
    chatErr,        \* chatLoop's return value: "none" (running), "nil", "err"
    exitCode,       \* process exit status, -1 while running or when killed
    \* observations of the run, read by the properties only
    denySeen,       \* the gate has read a deny-tool-run in the current turn
    toolCalls,      \* tool-call-requested callbacks entered
    gateReads,      \* reads of stdin done by the gate
    turnsDone,      \* handlePrompt calls that returned nil
    loopDefaults,   \* chatLoop reads that took the default branch
    eofReads,       \* chatLoop reads that met the end of stdin
    lastIsError,    \* isError of the last tool-call-completed callback
    readySincePrompt, \* ready lines written since the last prompt was accepted
    lastRead,       \* who did the last read of stdin, how it ended, the kind it got
    trigger,        \* the last event whose message could be written, with its arguments
    \* the byte level of stdin
    carry,          \* bytes written to stdin after the last newline: the line they
                    \* begin and how many of its bytes have arrived; after
                    \* ErrTooLong, the bytes the scanner's buffer holds
    \* the front end (first Application of app.tsx)
    isReady,        \* useState isReady (app.tsx:17)
    toolRequest,    \* useState toolRequest (app.tsx:18), "" for null
    handled         \* lines of stdout the stream handler has passed to handleMessage

vars == << pc, out, stdoutOk, stdin, stdinEnd, nSent, promptCanceled,
           promptCtxDone, ctxDone, promptErr, toolPending, events, hostClosed,
           chatErr, exitCode, denySeen, toolCalls, gateReads, turnsDone,
           loopDefaults, eofReads, lastIsError, readySincePrompt, lastRead,
           trigger, carry, isReady, toolRequest, handled >>

----------------------------------------------------------------------------
(* Bounds of the model *)

MaxIn == 3
MaxEvents == 2
\* chatLoop's ready/recv cycle at the end of input is endless; the model
\* follows it for this many reads
MaxEofReads == 2

----------------------------------------------------------------------------
(* Message kinds, main.go:25-36 *)

msgTypeReady == "ready"
msgTypePrompt == "prompt"
msgTypeQuit == "quit"
msgTypeChunk == "chunk"
msgTypeConfirm == "confirm-tool-run"
msgTypeAllow == "allow-tool-run"
msgTypeDeny == "deny-tool-run"
msgTypeResultOK == "tool-result-ok"
msgTypeResultFailed == "tool-result-failed"
msgTypeResultCanceled == "tool-result-canceled"

\* type Message struct, main.go:38-41
Message(t, c) == [msg_type |-> t, content |-> c]
ZeroMessage == Message("", "")

----------------------------------------------------------------------------
(* Wire lines.  A line is either not JSON at all (valid = FALSE) or a JSON *)
(* object whose two members are each a string, absent, or of another type. *)

Str(s) == [tag |-> "str", val |-> s]
Absent == [tag |-> "absent", val |-> ""]
NonString == [tag |-> "other", val |-> ""]
Line(v, t, c) == [valid |-> v, msg_type |-> t, content |-> c]
NotJSON == Line(FALSE, Absent, Absent)

\* json.NewEncoder(w).Encode(msg): both members always written, as strings
Encode(msg) == Line(TRUE, Str(msg.msg_type), Str(msg.content))

FieldValue(f) == IF f.tag = "str" THEN f.val ELSE ""

\* json.Unmarshal(b, &msg): a syntax error leaves msg untouched; a member of
\* the wrong type is skipped, the other members are still stored, and an
\* UnmarshalTypeError is returned.
Unmarshal(line) ==
    IF ~line.valid
    THEN [msg |-> ZeroMessage, err |-> TRUE]
    ELSE [msg |-> Message(FieldValue(line.msg_type), FieldValue(line.content)),
          err |-> line.msg_type.tag = "other" \/ line.content.tag = "other"]

----------------------------------------------------------------------------
(* The byte level of the inbound stream.  A line's wire form is its JSON   *)
(* text followed by one newline; the bytes of one wire form are told apart *)
(* by their position only.                                                 *)

\* len of {"msg_type":"<t>","content":"<c>"} plus the newline, for members
\* that need no escaping; the lines that are not such an encoding are shorter
WireLen(line) ==
    IF line.valid
    THEN 28 + Len(FieldValue(line.msg_type)) + Len(FieldValue(line.content)) + 1
    ELSE 9

\* bufio.MaxScanTokenSize, the buffer limit of bufio.NewScanner (main.go:122)
MaxScanTokenSize == 64 * 1024

\* the bytes after the last newline: the first n bytes of the wire form of line
Carry(line, n) == [line |-> line, n |-> n]
NoCarry == Carry(NotJSON, 0)

\* bufio.ScanLines at the end of the stream: the bytes left are the final
\* token.  All of a line but its newline is that line's JSON text; less is a
\* truncated object, which json.Unmarshal rejects.
FinalToken(c) == IF c.n = WireLen(c.line) - 1 THEN c.line ELSE NotJSON

\* scanner.Scan() with the default split function, on the terminated lines q,
\* the unterminated bytes c and a stream that is open or has ended as `end`.
\* Only evaluated when it would not block.  A line whose bytes before the
\* newline fill the buffer ends the scan with ErrTooLong; the buffer keeps the
\* first MaxScanTokenSize bytes of that line and nothing more is read.  Once
\* the scanner has an error or the stream has ended, the bytes it holds are
\* the last token; after them Scan returns false, with a nil Err() at end of
\* file.
Scan(q, c, end) ==
    IF end # "toolong" /\ q # << >> /\ WireLen(Head(q)) <= MaxScanTokenSize
    THEN [ok |-> TRUE, err |-> FALSE, token |-> Head(q), rest |-> Tail(q),
          carry |-> c, end |-> end]
    ELSE IF end # "toolong" /\ (q # << >> \/ c.n >= MaxScanTokenSize)
    THEN [ok |-> FALSE, err |-> TRUE, token |-> NotJSON, rest |-> << >>,
          carry |-> Carry(IF q # << >> THEN Head(q) ELSE c.line, MaxScanTokenSize),
          end |-> "toolong"]
    ELSE IF end # "open" /\ c # NoCarry
    THEN [ok |-> TRUE, err |-> FALSE, token |-> FinalToken(c), rest |-> q,
          carry |-> NoCarry, end |-> end]
    ELSE [ok |-> FALSE, err |-> (end \in {"err", "toolong"}), token |-> NotJSON,
          rest |-> q, carry |-> c, end |-> end]

\* a recvMessage that leaves the scanned line in the stream
recvMessagePeek(q, c, end) ==
    LET s == Scan(q, c, end)
        u == Unmarshal(s.token)
    IN  IF s.ok
        THEN [msg |-> u.msg, err |-> u.err, rest |-> q, carry |-> c,
              end |-> end, scanned |-> TRUE]
        ELSE [msg |-> ZeroMessage, err |-> s.err, rest |-> s.rest, carry |-> s.carry,
              end |-> s.end, scanned |-> FALSE]

\* recvMessage(scanner), main.go:51-62: the message and error it returns, what
\* is left of the stream, and whether a line was scanned
recvMessage(q, c, end) ==
    LET s == Scan(q, c, end)
        u == Unmarshal(s.token)
    IN  IF s.ok
        THEN [msg |-> u.msg, err |-> u.err, rest |-> s.rest, carry |-> s.carry,
              end |-> s.end, scanned |-> TRUE]
        ELSE [msg |-> ZeroMessage, err |-> s.err, rest |-> s.rest, carry |-> s.carry,
              end |-> s.end, scanned |-> FALSE]

\* sendMessage(os.Stdout, msg): the stream after the write, and the error
sendMessage(w, ok, msg) ==
    [out |-> IF ok THEN Append(w, Encode(msg)) ELSE w, err |-> ~ok]

----------------------------------------------------------------------------
(* Inputs *)

ToolNames == {"search", "ls"}
ToolArgs == {"q=\"x\""}
Chunks == {"He", "llo"}
NoTool == ""

PeerLines ==
    { Encode(Message(msgTypePrompt, "hi")),
      Encode(Message(msgTypeQuit, "")),
      Encode(Message(msgTypeAllow, "")),
      Encode(Message(msgTypeDeny, "")),
      NotJSON,
      Line(TRUE, Str(msgTypeDeny), NonString) }

\* Scan does not block: a line is buffered, the stream has ended, or the
\* scanner's buffer is full
\* the events that ask for an outbound message, with their arguments: the loop
\* is ready (main.go:125), a chunk was produced (195), a tool call was
\* requested (155), a tool call was completed (175)
Event(ev, name, text) == [ev |-> ev, name |-> name, text |-> text]
NoEvent == Event("none", "", "")

\* useState(null) for toolRequest, app.tsx:18
NoRequest == ""

CanRead == stdin # << >> \/ stdinEnd # "open" \/ carry.n >= MaxScanTokenSize

\* how a write to stdout can end, whatever became of the writes before it: the
\* line is written ("ok"), the write returns an error ("fail"), or, stdout
\* being a pipe whose reader has gone, the Go runtime ends the process with
\* SIGPIPE inside the write ("sigpipe")
WriteOutcomes == {"ok", "fail", "sigpipe"}


\* how a call of recvMessage ended: a decoded line, a line json.Unmarshal
\* rejected, end of file, or a failed read
ReadOutcome(r) ==
    IF r.scanned THEN (IF r.err THEN "bad" ELSE "msg")
    ELSE (IF r.err THEN "err" ELSE "eof")

----------------------------------------------------------------------------
(* Decisions of the code, as operators *)

\* a switch without the quit case
LoopDispatchNoQuit(msg) ==
    CASE msg.msg_type = msgTypePrompt -> "prompt"
      [] OTHER -> "default"

\* chatLoop's switch on msg.MsgType, main.go:134-144
LoopDispatch(msg) ==
    CASE msg.msg_type = msgTypeQuit -> "quit"
      [] msg.msg_type = msgTypePrompt -> "prompt"
      [] OTHER -> "default"

\* a gate that treats everything but allow as a denial
GateDecisionDenyByDefault(msg) ==
    CASE msg.msg_type = msgTypeAllow -> "allow"
      [] OTHER -> "deny"

\* onToolCall's switch on msg.MsgType, main.go:165-173
GateDecision(msg) ==
    CASE msg.msg_type = msgTypeDeny -> "deny"
      [] msg.msg_type = msgTypeAllow -> "allow"
      [] OTHER -> "other"

\* fmt.Sprintf("Run tool: %s with args: %s", name, args), main.go:156
Details(name, args) == "Run tool: " \o name \o " with args: " \o args

\* the same choice with the cancellation test ahead of the error test
ToolResultKindCancelFirst(isError, canceled) ==
    IF canceled THEN msgTypeResultCanceled
    ELSE IF isError THEN msgTypeResultFailed
    ELSE msgTypeResultOK

\* onToolResult's choice of message kind, main.go:176-190; `canceled` is
\* errors.Is(promptCtx.Err(), context.Canceled)
ToolResultKind(isError, canceled) ==
    IF isError THEN msgTypeResultFailed
    ELSE IF canceled THEN msgTypeResultCanceled
    ELSE msgTypeResultOK

\* a handlePrompt that returns every engine error
HandlePromptFailsAlways(err, canceled) == err

\* handlePrompt's return, main.go:201-204: TRUE when the engine's error is returned
HandlePromptFails(err, canceled) == err /\ ~canceled

\* a turn that starts with the flag and the context the last turn left
TurnStateKept(canceled, done, parent) ==
    [promptCanceled |-> canceled, promptCtxDone |-> done]

\* handlePrompt's entry, main.go:149-150: promptCanceled := false and promptCtx
\* derived from ctx; given what the last turn left and whether ctx is canceled
TurnState(canceled, done, parent) ==
    [promptCanceled |-> FALSE, promptCtxDone |-> parent]

\* a default branch that reads again without going through the top of the loop
LoopNextRereads == "recv"

\* where the for loop goes on after the switch, main.go:124-125, 142-145
LoopNext == "ready"

----------------------------------------------------------------------------
(* Initial state: main has built the host and calls chatLoop (main.go:111) *)

Init ==
    /\ pc = "ready"
    /\ out = << >>
    /\ stdoutOk = TRUE
    /\ stdin = << >>
    /\ stdinEnd = "open"
    /\ nSent = 0
    /\ promptCanceled = FALSE
    /\ promptCtxDone = FALSE
    /\ ctxDone = FALSE
    /\ promptErr = FALSE
    /\ toolPending = NoTool
    /\ events = 0
    /\ hostClosed = FALSE
    /\ chatErr = "none"
    /\ exitCode = -1
    /\ denySeen = FALSE
    /\ toolCalls = 0
    /\ gateReads = 0
    /\ turnsDone = 0
    /\ loopDefaults = 0
    /\ eofReads = 0
    /\ lastIsError = FALSE
    /\ readySincePrompt = 0
    /\ lastRead = [by |-> "none", got |-> "none", kind |-> ""]
    /\ trigger = NoEvent
    /\ carry = NoCarry
    /\ isReady = FALSE
    /\ toolRequest = NoRequest
    /\ handled = 0

streamVars == << stdin, stdinEnd, nSent >>
clientVars == << isReady, toolRequest, handled >>
turnVars == << promptCanceled, promptCtxDone, promptErr, toolPending, denySeen >>
countVars == << toolCalls, gateReads, turnsDone, loopDefaults >>
AtEof == stdin = << >> /\ carry = NoCarry /\ stdinEnd = "eof"

mainVars == << ctxDone, exitCode >>

\* the process is ended by SIGPIPE inside a write to stdout: the write does
\* not return, nothing is written, no deferred call runs and main never ends
Killed ==
    /\ pc' = "killed"
    /\ stdoutOk' = FALSE
    /\ UNCHANGED << out, trigger, streamVars, carry, clientVars, turnVars,
                    countVars, events, hostClosed, chatErr, mainVars, eofReads,
                    lastIsError, readySincePrompt, lastRead >>

\* chatLoop returns e and the deferred host.Close() runs (main.go:120); main
\* goes on to its end: on an error it cancels ctx and exits with status 1
\* (main.go:112-116), otherwise it returns
ChatLoopReturns(e) ==
    /\ pc' = "exited"
    /\ chatErr' = e
    /\ hostClosed' = TRUE
    /\ IF e = "err"
       THEN ctxDone' = TRUE /\ exitCode' = 1
       ELSE ctxDone' = ctxDone /\ exitCode' = 0

----------------------------------------------------------------------------
(* chatLoop, main.go:119-146 *)

\* a loop that goes on to read without announcing readiness
ChatLoopSkipsReady ==
    /\ pc = "ready"
    /\ pc' = "recv"
    /\ UNCHANGED << carry, clientVars, trigger, eofReads, out, stdoutOk,
                    streamVars, turnVars, countVars, ctxDone, events,
                    hostClosed, chatErr, exitCode, lastIsError,
                    readySincePrompt, lastRead >>

\* main.go:125-128
ChatLoopSendReady ==
    /\ pc = "ready"
    /\ \E w \in WriteOutcomes :
       LET ok == w = "ok"
           r == sendMessage(out, ok, Message(msgTypeReady, ""))
       IN  IF w = "sigpipe" THEN Killed
           ELSE /\ out' = r.out
                /\ stdoutOk' = ok
                /\ trigger' = IF ok THEN Event("ready", "", "") ELSE trigger
                /\ IF r.err
                   THEN ChatLoopReturns("err") /\ UNCHANGED readySincePrompt
                   ELSE /\ pc' = "recv"
                        /\ readySincePrompt' = readySincePrompt + 1
                        /\ UNCHANGED << chatErr, hostClosed, mainVars >>
                /\ UNCHANGED << carry, clientVars, eofReads, streamVars, turnVars,
                                countVars, events, lastIsError, lastRead >>

\* main.go:130-144, and the entry of handlePrompt, main.go:148-152
ChatLoopRecv ==
    /\ pc = "recv"
    /\ CanRead
    /\ AtEof => eofReads < MaxEofReads
    /\ eofReads' = IF AtEof THEN eofReads + 1 ELSE eofReads
    /\ \E r \in {recvMessage(stdin, carry, stdinEnd)} :
       LET d == LoopDispatch(r.msg)
           t == TurnState(promptCanceled, promptCtxDone, ctxDone)
       IN  /\ stdin' = r.rest
           /\ carry' = r.carry
           /\ stdinEnd' = r.end
           /\ lastRead' = [by |-> "loop", got |-> ReadOutcome(r), kind |-> r.msg.msg_type]
           /\ IF r.err
              THEN /\ ChatLoopReturns("err")
                   /\ UNCHANGED << turnVars, loopDefaults, readySincePrompt >>
              ELSE CASE d = "quit" ->
                          /\ ChatLoopReturns("nil")
                          /\ UNCHANGED << turnVars, loopDefaults, readySincePrompt >>
                     [] d = "prompt" ->
                          /\ pc' = "engine"
                          /\ promptCanceled' = t.promptCanceled
                          /\ promptCtxDone' = t.promptCtxDone
                          /\ promptErr' = FALSE
                          /\ toolPending' = NoTool
                          /\ denySeen' = FALSE
                          /\ readySincePrompt' = 0
                          /\ UNCHANGED << chatErr, hostClosed, mainVars, loopDefaults >>
                     [] OTHER ->
                          /\ pc' = LoopNext
                          /\ loopDefaults' = loopDefaults + 1
                          /\ UNCHANGED << chatErr, hostClosed, mainVars, turnVars,
                                          readySincePrompt >>
    /\ UNCHANGED << out, stdoutOk, nSent, events, toolCalls, gateReads,
                    turnsDone, lastIsError, trigger, clientVars >>

----------------------------------------------------------------------------
(* handlePrompt's callbacks, run by the engine one at a time *)

\* onStreaming that joins a chunk to the chunk message written just before it
OnStreamingCoalesced(chunk) ==
    /\ pc = "engine"
    /\ events < MaxEvents
    /\ \E w \in WriteOutcomes :
       LET ok == w = "ok"
       IN  IF w = "sigpipe" THEN Killed
           ELSE /\ events' = events + 1
                /\ stdoutOk' = ok
                /\ trigger' = IF ok THEN Event("chunk", "", chunk) ELSE trigger
                /\ out' = IF ok /\ out # << >>
                                /\ Unmarshal(out[Len(out)]).msg.msg_type = msgTypeChunk
                          THEN [out EXCEPT ![Len(out)] =
                                  Encode(Message(msgTypeChunk,
                                                 Unmarshal(out[Len(out)]).msg.content
                                                 \o chunk))]
                          ELSE sendMessage(out, ok, Message(msgTypeChunk, chunk)).out
                /\ UNCHANGED << carry, clientVars, eofReads, pc, streamVars,
                                turnVars, countVars, ctxDone, hostClosed, chatErr,
                                exitCode, lastIsError, readySincePrompt, lastRead >>

\* onStreaming, main.go:195-200
OnStreaming(chunk) ==
    /\ pc = "engine"
    /\ events < MaxEvents
    /\ \E w \in WriteOutcomes :
       LET ok == w = "ok"
       IN  IF w = "sigpipe" THEN Killed
           ELSE /\ events' = events + 1
                /\ out' = sendMessage(out, ok, Message(msgTypeChunk, chunk)).out
                /\ stdoutOk' = ok
                /\ trigger' = IF ok THEN Event("chunk", "", chunk) ELSE trigger
                /\ UNCHANGED << carry, clientVars, eofReads, pc, streamVars,
                                turnVars, countVars, ctxDone, hostClosed, chatErr,
                                exitCode, lastIsError, readySincePrompt, lastRead >>

\* onToolCall that sends the request and returns without reading the reply
OnToolCallSendNoWait(name, args) ==
    /\ pc = "engine"
    /\ events < MaxEvents
    /\ \E w \in WriteOutcomes :
       LET ok == w = "ok"
       IN  IF w = "sigpipe" THEN Killed
           ELSE /\ events' = events + 1
                /\ out' = sendMessage(out, ok,
                                      Message(msgTypeConfirm, Details(name, args))).out
                /\ stdoutOk' = ok
                /\ trigger' = IF ok THEN Event("call", name, args) ELSE trigger
                /\ toolPending' = name
                /\ toolCalls' = toolCalls + 1
                /\ UNCHANGED << carry, clientVars, eofReads, pc, streamVars,
                                promptCanceled, promptCtxDone, promptErr, denySeen,
                                gateReads, turnsDone, loopDefaults, ctxDone,
                                hostClosed, chatErr, exitCode, lastIsError,
                                readySincePrompt, lastRead >>

\* onToolCall up to its blocking read, main.go:155-161
OnToolCallSend(name, args) ==
    /\ pc = "engine"
    /\ events < MaxEvents
    /\ \E w \in WriteOutcomes :
       LET ok == w = "ok"
       IN  IF w = "sigpipe" THEN Killed
           ELSE /\ events' = events + 1
                /\ out' = sendMessage(out, ok,
                                      Message(msgTypeConfirm, Details(name, args))).out
                /\ stdoutOk' = ok
                /\ trigger' = IF ok THEN Event("call", name, args) ELSE trigger
                /\ toolPending' = name
                /\ toolCalls' = toolCalls + 1
                /\ pc' = "gate"
                /\ UNCHANGED << carry, clientVars, eofReads, streamVars,
                                promptCanceled, promptCtxDone, promptErr, denySeen,
                                gateReads, turnsDone, loopDefaults, ctxDone,
                                hostClosed, chatErr, exitCode, lastIsError,
                                readySincePrompt, lastRead >>

\* onToolCall whose deny branch sets the flag but never calls cancelPrompt()
OnToolCallRecvNoCancel ==
    /\ pc = "gate"
    /\ CanRead
    /\ \E r \in {recvMessage(stdin, carry, stdinEnd)} :
       LET d == GateDecision(r.msg)
       IN  /\ stdin' = r.rest
           /\ carry' = r.carry
           /\ stdinEnd' = r.end
           /\ lastRead' = [by |-> "gate", got |-> ReadOutcome(r), kind |-> r.msg.msg_type]
           /\ IF d = "deny"
              THEN /\ promptCanceled' = TRUE
                   /\ denySeen' = TRUE
              ELSE UNCHANGED << promptCanceled, denySeen >>
    /\ gateReads' = gateReads + 1
    /\ pc' = "engine"
    /\ UNCHANGED << clientVars, trigger, eofReads, out, stdoutOk, nSent, promptErr, toolPending,
                    promptCtxDone, toolCalls, turnsDone, loopDefaults, ctxDone,
                    events, hostClosed, chatErr, exitCode, lastIsError,
                    readySincePrompt >>

\* onToolCall whose deny branch calls cancelPrompt() but leaves the flag unset
OnToolCallRecvCancelOnly ==
    /\ pc = "gate"
    /\ CanRead
    /\ \E r \in {recvMessage(stdin, carry, stdinEnd)} :
       LET d == GateDecision(r.msg)
       IN  /\ stdin' = r.rest
           /\ carry' = r.carry
           /\ stdinEnd' = r.end
           /\ lastRead' = [by |-> "gate", got |-> ReadOutcome(r), kind |-> r.msg.msg_type]
           /\ IF d = "deny"
              THEN /\ promptCtxDone' = TRUE
                   /\ denySeen' = TRUE
              ELSE UNCHANGED << promptCtxDone, denySeen >>
    /\ gateReads' = gateReads + 1
    /\ pc' = "engine"
    /\ UNCHANGED << clientVars, trigger, eofReads, out, stdoutOk, nSent,
                    promptErr, toolPending, promptCanceled, toolCalls,
                    turnsDone, loopDefaults, ctxDone, events, hostClosed,
                    chatErr, exitCode, lastIsError, readySincePrompt >>

\* onToolCall that reports the denied call as canceled itself
OnToolCallRecvAnnouncesDeny ==
    /\ pc = "gate"
    /\ CanRead
    /\ \E r \in {recvMessage(stdin, carry, stdinEnd)} :
       LET d == GateDecision(r.msg)
       IN  /\ stdin' = r.rest
           /\ carry' = r.carry
           /\ stdinEnd' = r.end
           /\ lastRead' = [by |-> "gate", got |-> ReadOutcome(r), kind |-> r.msg.msg_type]
           /\ IF d = "deny"
              THEN /\ promptCanceled' = TRUE
                   /\ promptCtxDone' = TRUE
                   /\ denySeen' = TRUE
                   /\ out' = sendMessage(out, TRUE,
                                         Message(msgTypeResultCanceled, toolPending)).out
              ELSE UNCHANGED << promptCanceled, promptCtxDone, denySeen, out >>
    /\ gateReads' = gateReads + 1
    /\ pc' = "engine"
    /\ UNCHANGED << clientVars, trigger, eofReads, stdoutOk, nSent, promptErr,
                    toolPending, toolCalls, turnsDone, loopDefaults, ctxDone,
                    events, hostClosed, chatErr, exitCode, lastIsError,
                    readySincePrompt >>

\* onToolCall from its read to its return, main.go:161-174
OnToolCallRecv ==
    /\ pc = "gate"
    /\ CanRead
    /\ \E r \in {recvMessage(stdin, carry, stdinEnd)} :
       LET d == GateDecision(r.msg)
       IN  /\ stdin' = r.rest
           /\ carry' = r.carry
           /\ stdinEnd' = r.end
           /\ lastRead' = [by |-> "gate", got |-> ReadOutcome(r), kind |-> r.msg.msg_type]
           /\ IF d = "deny"
              THEN /\ promptCanceled' = TRUE
                   /\ promptCtxDone' = TRUE
                   /\ denySeen' = TRUE
              ELSE UNCHANGED << promptCanceled, promptCtxDone, denySeen >>
    /\ gateReads' = gateReads + 1
    /\ pc' = "engine"
    /\ UNCHANGED << clientVars, trigger, eofReads, out, stdoutOk, nSent, promptErr, toolPending,
                    toolCalls, turnsDone, loopDefaults, ctxDone, events,
                    hostClosed, chatErr, exitCode, lastIsError, readySincePrompt >>

\* onToolResult that announces readiness once the tool call is reported
OnToolResultAnnouncesReady(isError) ==
    /\ pc = "engine"
    /\ toolPending # NoTool
    /\ \E w \in WriteOutcomes :
       LET ok == w = "ok"
       IN  IF w = "sigpipe" THEN Killed
           ELSE /\ out' = sendMessage(
                             sendMessage(out, ok,
                                         Message(ToolResultKind(isError, promptCtxDone),
                                                 toolPending)).out,
                             ok, Message(msgTypeReady, "")).out
                /\ stdoutOk' = ok
                /\ trigger' = IF ok THEN Event("result", toolPending, "") ELSE trigger
                /\ toolPending' = NoTool
                /\ lastIsError' = isError
                /\ UNCHANGED << carry, clientVars, eofReads, pc, streamVars,
                                promptCanceled, promptCtxDone, promptErr, denySeen,
                                countVars, ctxDone, events, hostClosed, chatErr,
                                exitCode, readySincePrompt, lastRead >>

\* onToolResult, main.go:175-194
OnToolResult(isError) ==
    /\ pc = "engine"
    /\ toolPending # NoTool
    /\ \E w \in WriteOutcomes :
       LET ok == w = "ok"
       IN  IF w = "sigpipe" THEN Killed
           ELSE /\ out' = sendMessage(out, ok,
                                      Message(ToolResultKind(isError, promptCtxDone),
                                              toolPending)).out
                /\ stdoutOk' = ok
                /\ trigger' = IF ok THEN Event("result", toolPending, "") ELSE trigger
                /\ toolPending' = NoTool
                /\ lastIsError' = isError
                /\ UNCHANGED << carry, clientVars, eofReads, pc, streamVars,
                                promptCanceled, promptCtxDone, promptErr, denySeen,
                                countVars, ctxDone, events, hostClosed, chatErr,
                                exitCode, readySincePrompt, lastRead >>

\* PromptWithCallbacks returns err; handlePrompt returns, main.go:201-204;
\* chatLoop acts on it, main.go:138-141
EngineReturn(err) ==
    /\ pc = "engine"
    /\ promptErr' = err
    /\ IF HandlePromptFails(err, promptCanceled)
       THEN ChatLoopReturns("err") /\ UNCHANGED turnsDone
       ELSE /\ pc' = LoopNext
            /\ turnsDone' = turnsDone + 1
            /\ UNCHANGED << chatErr, hostClosed, mainVars >>
    /\ UNCHANGED << carry, clientVars, trigger, eofReads, out, stdoutOk,
                    streamVars, promptCanceled, promptCtxDone, toolPending,
                    denySeen, toolCalls, gateReads, loopDefaults, events,
                    lastIsError, readySincePrompt, lastRead >>

----------------------------------------------------------------------------
(* The peer and the pipes, for as long as chatLoop runs *)

Running == pc \notin {"exited", "killed"}

PeerWrite(line) ==
    /\ Running
    /\ stdinEnd = "open"
    /\ carry = NoCarry
    /\ nSent < MaxIn
    /\ stdin' = Append(stdin, line)
    /\ nSent' = nSent + 1
    /\ UNCHANGED << carry, clientVars, trigger, eofReads, pc, out, stdoutOk,
                    stdinEnd, turnVars, countVars, ctxDone, events,
                    hostClosed, chatErr, exitCode, lastIsError,
                    readySincePrompt, lastRead >>

\* stdin ends under a blocked Scan that has drained it: the peer has closed
\* it ("eof") or reading it fails ("err")
StdinEnds(how) ==
    /\ pc \in {"recv", "gate"}
    /\ stdin = << >>
    /\ stdinEnd = "open"
    /\ stdinEnd' = how
    /\ UNCHANGED << carry, clientVars, trigger, eofReads, pc, out, stdoutOk,
                    stdin, nSent, turnVars, countVars, ctxDone, events,
                    hostClosed, chatErr, exitCode, lastIsError,
                    readySincePrompt, lastRead >>

Agent ==
    \/ ChatLoopSendReady
    \/ ChatLoopRecv
    \/ OnToolCallRecv

Engine ==
    \/ \E c \in Chunks : OnStreaming(c)
    \/ \E n \in ToolNames, a \in ToolArgs : OnToolCallSend(n, a)
    \/ \E e \in BOOLEAN : OnToolResult(e)
    \/ \E e \in BOOLEAN : EngineReturn(e)

Peer ==
    \/ \E l \in PeerLines : PeerWrite(l)
    \/ \E h \in {"eof", "err"} : StdinEnds(h)

Next == Agent \/ Engine \/ Peer

Spec == Init /\ [][Next]_vars

----------------------------------------------------------------------------
(* A peer that writes stdin a few bytes at a time *)

\* a content as long as the scanner's buffer
LongContent ==
    LET a4 == "aaaaaaaaaaaaaaaa"
        a6 == a4 \o a4 \o a4 \o a4
        a8 == a6 \o a6 \o a6 \o a6
        a10 == a8 \o a8 \o a8 \o a8
        a12 == a10 \o a10 \o a10 \o a10
        a14 == a12 \o a12 \o a12 \o a12
    IN  a14 \o a14 \o a14 \o a14

FrameLines ==
    { Encode(Message(msgTypePrompt, "hi")),
      Encode(Message(msgTypeQuit, "")),
      Encode(Message(msgTypePrompt, LongContent)) }

\* where a write of the line may stop short: after one byte, after
\* {"msg_typ, before the closing brace, before the newline
SplitAt(line) == {1, 9, WireLen(line) - 2, WireLen(line) - 1}

\* the peer writes the first k bytes of a line
PeerFeed(line, k) ==
    /\ Running
    /\ stdinEnd = "open"
    /\ carry = NoCarry
    /\ nSent < MaxIn
    /\ carry' = Carry(line, k)
    /\ nSent' = nSent + 1
    /\ UNCHANGED << pc, out, stdoutOk, stdin, stdinEnd, turnVars, countVars,
                    ctxDone, events, hostClosed, chatErr, exitCode, eofReads,
                    lastIsError, readySincePrompt, lastRead, trigger,
                    clientVars >>

\* the peer writes on, up to byte k of the line it has begun; the last byte
\* is the newline
PeerFeedRest(k) ==
    /\ Running
    /\ stdinEnd = "open"
    /\ carry # NoCarry
    /\ carry.n < k
    /\ nSent < MaxIn
    /\ IF k = WireLen(carry.line)
       THEN stdin' = Append(stdin, carry.line) /\ carry' = NoCarry
       ELSE stdin' = stdin /\ carry' = Carry(carry.line, k)
    /\ nSent' = nSent + 1
    /\ UNCHANGED << pc, out, stdoutOk, stdinEnd, turnVars, countVars,
                    ctxDone, events, hostClosed, chatErr, exitCode, eofReads,
                    lastIsError, readySincePrompt, lastRead, trigger,
                    clientVars >>

FramePeer ==
    \/ \E l \in FrameLines : PeerWrite(l)
    \/ \E l \in FrameLines : \E k \in SplitAt(l) : PeerFeed(l, k)
    \/ \E k \in SplitAt(carry.line) \cup {WireLen(carry.line)} : PeerFeedRest(k)
    \/ \E h \in {"eof", "err"} : StdinEnds(h)

FrameNext == Agent \/ Engine \/ FramePeer

FrameSpec == Init /\ [][FrameNext]_vars

----------------------------------------------------------------------------
(* The front end: the first Application of app.tsx.  Its handlers run while *)
(* the component is mounted, that is until ClientClose has ended stdin.    *)

\* handleMessage, app.tsx:32-48: the state after msg, from the state st
handleMessage(st, msg) ==
    CASE msg.msg_type = msgTypeReady -> [st EXCEPT !.isReady = TRUE]
      [] msg.msg_type = msgTypeConfirm -> [st EXCEPT !.toolRequest = msg.content]
      [] OTHER -> st

\* the stream handler, app.tsx:51-67, on the next line of stdout
ClientStream ==
    /\ stdinEnd = "open"
    /\ handled < Len(out)
    /\ LET line == out[handled + 1]
           st == [isReady |-> isReady, toolRequest |-> toolRequest]
           nx == IF line.valid THEN handleMessage(st, Unmarshal(line).msg) ELSE st
       IN  /\ isReady' = nx.isReady
           /\ toolRequest' = nx.toolRequest
    /\ handled' = handled + 1
    /\ UNCHANGED << pc, out, stdoutOk, streamVars, carry, turnVars, countVars,
                    ctxDone, events, hostClosed, chatErr, exitCode, eofReads,
                    lastIsError, readySincePrompt, lastRead, trigger >>

\* sendMessage, app.tsx:82-103, with the trimmed input
ClientSendMessage(input) ==
    /\ Running
    /\ stdinEnd = "open"
    /\ nSent < MaxIn
    /\ input # ""
    /\ isReady
    /\ stdin' = Append(stdin, Encode(Message(msgTypePrompt, input)))
    /\ nSent' = nSent + 1
    /\ isReady' = FALSE
    /\ UNCHANGED << pc, out, stdoutOk, stdinEnd, carry, turnVars, countVars,
                    ctxDone, events, hostClosed, chatErr, exitCode, eofReads,
                    lastIsError, readySincePrompt, lastRead, trigger,
                    toolRequest, handled >>

\* handleToolResponse, app.tsx:112-122
ClientToolResponse(allow) ==
    /\ Running
    /\ stdinEnd = "open"
    /\ nSent < MaxIn
    /\ toolRequest # NoRequest
    /\ stdin' = Append(stdin, Encode(Message(IF allow THEN msgTypeAllow
                                                     ELSE msgTypeDeny, "")))
    /\ nSent' = nSent + 1
    /\ toolRequest' = NoRequest
    /\ UNCHANGED << pc, out, stdoutOk, stdinEnd, carry, turnVars, countVars,
                    ctxDone, events, hostClosed, chatErr, exitCode, eofReads,
                    lastIsError, readySincePrompt, lastRead, trigger,
                    isReady, handled >>

\* the cleanup of the mount effect, app.tsx:69-72, run when the component
\* unmounts: proc.close() ends the agent's stdin, and no handler of the
\* component runs afterwards
ClientClose ==
    /\ Running
    /\ stdinEnd = "open"
    /\ stdinEnd' = "eof"
    /\ UNCHANGED << pc, out, stdoutOk, stdin, nSent, carry, turnVars, countVars,
                    ctxDone, events, hostClosed, chatErr, exitCode, eofReads,
                    lastIsError, readySincePrompt, lastRead, trigger,
                    clientVars >>

Inputs == {"hi", "go on"}

Client ==
    \/ ClientStream
    \/ \E i \in Inputs : ClientSendMessage(i)
    \/ \E a \in BOOLEAN : ClientToolResponse(a)
    \/ ClientClose

ClientNext == Agent \/ Engine \/ Client

ClientSpec == Init /\ [][ClientNext]_vars

----------------------------------------------------------------------------
(* Reading the output stream back, as the peer decodes it *)

OutMsg(i) == Unmarshal(out[i]).msg
OutKind(i) == OutMsg(i).msg_type
Count(kind) == Cardinality({i \in DOMAIN out : OutKind(i) = kind})
LastOut == OutMsg(Len(out))

\* the successor's output is this one plus exactly the line of msg
Emits(msg) == out' = Append(out, Encode(msg))
\* the successor's output is this one, or this one plus one line
EmitsAtMostOne == out' = out \/ (Len(out') = Len(out) + 1 /\ SubSeq(out', 1, Len(out)) = out)

InTurn == pc \in {"engine", "gate"}
Terminated == pc \in {"exited", "killed"}

\* steps of the code, told apart by the control positions they join
ToolResultStep == pc = "engine" /\ toolPending # NoTool /\ toolPending' = NoTool
GateReadStep == pc = "gate" /\ pc' # pc
LoopReadStep == pc = "recv" /\ pc' # pc
EngineReturnStep == pc = "engine" /\ pc' \in {"ready", "exited"}
SendReadyStep == pc = "ready" /\ pc' # pc

----------------------------------------------------------------------------
(* C1 *)

\* C1: cancellation monotonicity.  Once the gate has read deny-tool-run in a
\* turn, no line written during the rest of that turn is tool-result-ok, and
\* every tool-call-completed callback of that turn writes tool-result-canceled
\* or tool-result-failed, whatever the gate reads afterwards.
C1_CancellationMonotone ==
    [][ (denySeen /\ InTurn) =>
          /\ EmitsAtMostOne
          /\ (out' # out => Unmarshal(out'[Len(out')]).msg.msg_type # msgTypeResultOK)
          /\ (ToolResultStep /\ stdoutOk' =>
                \E k \in {msgTypeResultCanceled, msgTypeResultFailed} :
                    Emits(Message(k, toolPending))) ]_vars

\* a deny was read, a later request went through the gate as well, and its
\* completion without error was reported as canceled
C1_Witness ==
    /\ denySeen /\ pc = "engine"
    /\ toolCalls = 2 /\ gateReads = 2 /\ toolPending = NoTool
    /\ lastRead.by = "gate" /\ lastRead.kind = msgTypeAllow
    /\ ~lastIsError
    /\ Len(out) > 0 /\ LastOut.msg_type = msgTypeResultCanceled

----------------------------------------------------------------------------
(* C2 *)

\* requests whose confirm-tool-run has been sent and whose reply is not yet read
PendingApprovals == toolCalls - gateReads

\* C2: at most one pending approval.  With the engine running one callback at
\* a time, a confirm-tool-run is written only when the reply to every earlier
\* one has been read, and between a confirm-tool-run and the read of its reply
\* the agent writes nothing.
C2_OnePendingApproval ==
    /\ [](PendingApprovals \in {0, 1} /\ Count(msgTypeConfirm) <= gateReads + 1)
    /\ [][ /\ (PendingApprovals = 1 => out' = out)
           /\ (toolCalls' # toolCalls => PendingApprovals = 0) ]_vars

\* a second confirm-tool-run is out and waits for its reply; the first was answered
C2_Witness ==
    /\ pc = "gate" /\ Count(msgTypeConfirm) = 2 /\ gateReads = 1
    /\ LastOut.msg_type = msgTypeConfirm

----------------------------------------------------------------------------
(* C3 *)

\* the run does not stop while the agent can take a step, the engine call can
\* return, or a blocked read can be served by the end of the stream
LiveSpec ==
    /\ Spec
    /\ WF_vars(\/ Agent
               \/ \E e \in BOOLEAN : EngineReturn(e)
               \/ \E h \in {"eof", "err"} : StdinEnds(h))

\* the turn ended with an engine error and no deny-tool-run was read in it
TurnFatal == promptErr /\ ~denySeen

C3_ReadyOutcome ==
    pc = "recv" /\ readySincePrompt = 1 /\ chatErr = "none" /\ ~TurnFatal
C3_TerminatedOutcome ==
    /\ Terminated /\ readySincePrompt = 0
    /\ (pc = "exited" /\ chatErr = "err") \/ (pc = "killed" /\ ~stdoutOk)

\* C3: turn liveness.  Every accepted prompt is followed either by exactly one
\* ready, with the loop reading again (the turn ended non-fatally), or by the
\* end of the session with no ready: chatLoop returns an error (the turn ended
\* fatally, or the ready could not be written) or the process is killed in a
\* write to stdout; a fatal turn is never followed by a ready.
C3_TurnLiveness ==
    /\ [](InTurn => <>(C3_ReadyOutcome \/ C3_TerminatedOutcome))
    /\ []((TurnFatal /\ ~InTurn) => C3_TerminatedOutcome)
    /\ []((Terminated /\ readySincePrompt = 0) => (TurnFatal \/ ~stdoutOk))

\* a turn with a tool round trip has ended and its single ready is out
C3_Witness ==
    /\ turnsDone = 1 /\ gateReads = 1 /\ C3_ReadyOutcome
    /\ LastOut.msg_type = msgTypeReady

----------------------------------------------------------------------------
(* C4 *)

\* the loop reads a well-formed message that is neither prompt nor quit
OtherKindRead ==
    /\ LoopReadStep
    /\ stdin # << >>
    /\ ~Unmarshal(Head(stdin)).err
    /\ Unmarshal(Head(stdin)).msg.msg_type \notin {msgTypePrompt, msgTypeQuit}

\* C4 as stated: while the loop waits for a reply, the ready messages written
\* number one plus the completed prompt turns (a message of another kind is
\* followed by the next read, with no ready in between).  Stated for the runs
\* in which stdin has not ended.
C4_ReadyOnlyPerTurn ==
    (pc = "recv" /\ stdinEnd = "open") => Count(msgTypeReady) = 1 + turnsDone

\* C4 amended: a message of another kind sends the loop back to its top, where
\* ready is written again before the next read; while the loop waits for a
\* reply or runs a turn, the ready messages written number one plus the
\* completed prompt turns plus the reads that took the default branch.
C4_ReadyPerIteration ==
    /\ [](pc \in {"recv", "engine", "gate"} =>
            Count(msgTypeReady) = 1 + turnsDone + loopDefaults)
    /\ [][ /\ (OtherKindRead => (pc' = "ready" /\ out' = out /\ chatErr' = "none"))
           /\ (SendReadyStep /\ stdoutOk' =>
                 (Emits(Message(msgTypeReady, "")) /\ pc' = "recv")) ]_vars

\* an allow-tool-run was read by the loop and ready was written a second time
C4_Witness ==
    /\ pc = "recv" /\ turnsDone = 0 /\ loopDefaults = 1
    /\ lastRead = [by |-> "loop", got |-> "msg", kind |-> msgTypeAllow]
    /\ Count(msgTypeReady) = 2

----------------------------------------------------------------------------
(* C5 *)

\* C5: malformed-input resilience.  A line that is not JSON, read by the
\* session loop, is dropped: the loop does not end with an error.
C5_MalformedLineDropped ==
    [][ (LoopReadStep /\ stdin # << >> /\ ~Head(stdin).valid) =>
          (chatErr' = "none" /\ ~hostClosed') ]_vars

----------------------------------------------------------------------------
(* C6 *)

\* C6: when the session loop's read meets the end of stdin or a read error,
\* the loop ends: chatLoop returns an error and the host is closed.
C6_EndOfInputEndsLoop ==
    (lastRead.by = "loop" /\ lastRead.got \in {"eof", "err"}) =>
        (Terminated /\ chatErr = "err" /\ hostClosed)

----------------------------------------------------------------------------
(* C7 *)

\* C7: engine error policy.  An engine error in a turn in which no
\* deny-tool-run was read ends chatLoop with that error, and nothing is written
\* afterwards; an engine error in a turn in which deny-tool-run was read is
\* swallowed, the loop goes on and its next step writes ready.
C7_EngineErrorPolicy ==
    [][ /\ (EngineReturnStep /\ promptErr' /\ ~denySeen =>
              (pc' = "exited" /\ chatErr' = "err" /\ hostClosed' /\ out' = out
               /\ exitCode' = 1))
        /\ (EngineReturnStep /\ promptErr' /\ denySeen =>
              (pc' = "ready" /\ chatErr' = "none" /\ ~hostClosed'
               /\ turnsDone' = turnsDone + 1))
        /\ (Terminated => out' = out)
        /\ (SendReadyStep /\ stdoutOk' =>
              (Emits(Message(msgTypeReady, "")) /\ pc' = "recv")) ]_vars

\* the engine failed in a denied turn, and the next ready is out
C7_Witness ==
    /\ promptErr /\ denySeen /\ pc = "recv" /\ chatErr = "none"
    /\ readySincePrompt = 1 /\ LastOut.msg_type = msgTypeReady

----------------------------------------------------------------------------
(* C8 *)

\* the kind the claim gives for (isError, cancellation flag)
C8_Expected(isError, canceled) ==
    CASE isError -> msgTypeResultFailed
      [] ~isError /\ canceled -> msgTypeResultCanceled
      [] ~isError /\ ~canceled -> msgTypeResultOK

\* C8: tool-result classification.  Each tool-call-completed callback writes
\* exactly one message, with the tool name as content: tool-result-failed if
\* isError, else tool-result-canceled if the turn's cancellation flag is set at
\* that moment, else tool-result-ok.
C8_ToolResultClassification ==
    [][ ToolResultStep =>
          out' = sendMessage(out, stdoutOk',
                             Message(C8_Expected(lastIsError', promptCanceled),
                                     toolPending)).out ]_vars

\* a call failed in a canceled turn and was reported as failed, by name
C8_Witness ==
    /\ pc = "engine" /\ toolPending = NoTool /\ toolCalls = 1
    /\ lastIsError /\ promptCanceled
    /\ LastOut = Message(msgTypeResultFailed, "ls")

----------------------------------------------------------------------------
(* C9 *)

\* the kind the gate's read is about to get ("" at the end of stdin)
GateKind == IF stdin = << >> THEN "" ELSE Unmarshal(Head(stdin)).msg.msg_type

\* C9: the gate reads stdin once per tool-call request and returns to the
\* engine; allow-tool-run changes no turn state, deny-tool-run sets the flag
\* and cancels the invocation, any other kind changes no turn state.
C9_GateSingleRead ==
    /\ [](toolCalls = gateReads + (IF pc = "gate" THEN 1 ELSE 0))
    /\ [][ GateReadStep =>
             /\ pc' = "engine"
             /\ out' = out
             /\ (stdin # << >> => stdin' = Tail(stdin))
             /\ (GateKind = msgTypeDeny => (promptCanceled' /\ promptCtxDone'))
             /\ (GateKind # msgTypeDeny =>
                   UNCHANGED << promptCanceled, promptCtxDone >>) ]_vars

\* the gate read a quit, and the engine runs on un-canceled
C9_Witness ==
    /\ pc = "engine" /\ toolCalls = 1 /\ gateReads = 1
    /\ lastRead = [by |-> "gate", got |-> "msg", kind |-> msgTypeQuit]
    /\ ~promptCanceled /\ ~promptCtxDone

----------------------------------------------------------------------------
(* C10 *)

\* the loop reads a well-formed quit
QuitRead ==
    /\ LoopReadStep
    /\ stdin # << >>
    /\ ~Unmarshal(Head(stdin)).err
    /\ Unmarshal(Head(stdin)).msg.msg_type = msgTypeQuit

\* C10: on quit the loop returns without error, the host is closed, nothing
\* is written afterwards, and the process exits with status 0.
C10_QuitEndsCleanly ==
    /\ [][ /\ (QuitRead => (pc' = "exited" /\ chatErr' = "nil" /\ hostClosed'
                            /\ out' = out /\ exitCode' = 0))
           /\ (Terminated => (out' = out /\ chatErr' = chatErr))
           /\ (pc = "exited" => hostClosed /\ hostClosed') ]_vars
    /\ []((Terminated /\ chatErr = "nil") => (exitCode = 0 /\ ~ctxDone))

\* quit was read after a completed turn; the process has exited cleanly
C10_Witness ==
    /\ lastRead = [by |-> "loop", got |-> "msg", kind |-> msgTypeQuit]
    /\ pc = "exited" /\ exitCode = 0 /\ hostClosed /\ chatErr = "nil"
    /\ turnsDone = 1 /\ LastOut.msg_type = msgTypeReady

----------------------------------------------------------------------------
(* C11 *)

\* the messages an event asks for: one for each event, and for a completed
\* tool call one of the three result kinds with the tool's name
C11_Asked(t) ==
    CASE t.ev = "ready" -> {Message(msgTypeReady, "")}
      [] t.ev = "chunk" -> {Message(msgTypeChunk, t.text)}
      [] t.ev = "call" ->
           {Message(msgTypeConfirm, "Run tool: " \o t.name \o " with args: " \o t.text)}
      [] t.ev = "result" ->
           {Message(k, t.name) :
              k \in {msgTypeResultOK, msgTypeResultFailed, msgTypeResultCanceled}}
      [] OTHER -> {}

\* a step in which one of the four events is observed
EventStep == SendReadyStep \/ events' # events \/ ToolResultStep

\* the first turn is over, its engine produced chunks only, and each of the
\* writes (ready, the chunks, ready) went through
C11_ChunkTurnOver ==
    /\ pc = "recv" /\ Len(out) = events + 2
    /\ turnsDone = 1 /\ loopDefaults = 0 /\ toolCalls = 0

\* C11: outbound ordering.  Every event whose write goes through appends
\* exactly its one message to the output, a chunk with its text verbatim, and
\* nothing else changes the output, so the output is the sequence of the
\* events in the order observed;
\* a turn whose engine produces chunks c1..cn and no tool call leaves the
\* output ready, chunk c1, ..., chunk cn, ready.
C11_OutboundOrdering ==
    /\ [][ /\ (EventStep /\ stdoutOk' => \E m \in C11_Asked(trigger') : Emits(m))
           /\ (~EventStep => out' = out) ]_vars
    /\ [](C11_ChunkTurnOver =>
            /\ OutMsg(1) = Message(msgTypeReady, "")
            /\ \A i \in 2 .. events + 1 :
                  OutKind(i) = msgTypeChunk /\ OutMsg(i).content \in Chunks
            /\ OutMsg(events + 2) = Message(msgTypeReady, ""))

\* scenario A: the chunks "He" and "llo" between two ready messages
C11_Witness ==
    /\ pc = "recv" /\ turnsDone = 1
    /\ out = << Encode(Message(msgTypeReady, "")),
                Encode(Message(msgTypeChunk, "He")),
                Encode(Message(msgTypeChunk, "llo")),
                Encode(Message(msgTypeReady, "")) >>

----------------------------------------------------------------------------
(* C12 *)

\* the first turn is over: one tool call, denied, completed without error, no
\* chunk, and each of the four writes went through
C12_DeniedTurnOver ==
    /\ pc = "recv" /\ Len(out) = 4
    /\ turnsDone = 1 /\ loopDefaults = 0
    /\ events = 1 /\ toolCalls = 1 /\ toolPending = NoTool
    /\ denySeen /\ ~lastIsError

\* the description of the request for `name` with the arguments q="x"
C12_Description(name) ==
    IF name = "search" THEN "Run tool: search with args: q=\"x\""
    ELSE "Run tool: ls with args: q=\"x\""

\* C12: deny scenario.  The gate's read writes nothing, whatever it reads; a
\* turn with one tool call that is denied and then completes without error
\* leaves the output ready, confirm-tool-run with the description,
\* tool-result-canceled with the tool name, ready.
C12_DenyScenario ==
    /\ [][ GateReadStep => out' = out ]_vars
    /\ [](C12_DeniedTurnOver =>
            \E n \in ToolNames :
               out = << Encode(Message(msgTypeReady, "")),
                        Encode(Message(msgTypeConfirm, C12_Description(n))),
                        Encode(Message(msgTypeResultCanceled, n)),
                        Encode(Message(msgTypeReady, "")) >>)

\* scenario B: search is requested and denied
C12_Witness ==
    /\ C12_DeniedTurnOver
    /\ lastRead = [by |-> "gate", got |-> "msg", kind |-> msgTypeDeny]
    /\ OutMsg(2) = Message(msgTypeConfirm, "Run tool: search with args: q=\"x\"")
    /\ OutMsg(3) = Message(msgTypeResultCanceled, "search")

----------------------------------------------------------------------------
(* C13 *)

\* the messages written by the byte-wise peer
C13_Valid ==
    { Message(msgTypePrompt, "hi"),
      Message(msgTypeQuit, ""),
      Message(msgTypePrompt, LongContent) }

\* C13: framing round trip.  Whenever all the bytes of the line that encodes a
\* valid message have been written, in one write or split at any offset over
\* several, the next recvMessage returns exactly that message, without error,
\* and takes the line out of the stream.
C13_FramingRoundTrip ==
    \A m \in C13_Valid :
       (stdin # << >> /\ Head(stdin) = Encode(m)) =>
          LET r == recvMessage(stdin, carry, stdinEnd)
          IN  r.scanned /\ ~r.err /\ r.msg = m /\ r.rest = Tail(stdin)

----------------------------------------------------------------------------
(* C14 *)

\* a read that finds the stream closed with unterminated bytes left in it
FinalPartialRead ==
    /\ LoopReadStep \/ GateReadStep
    /\ stdin = << >> /\ carry # NoCarry /\ carry.n < MaxScanTokenSize
    /\ stdinEnd = "eof"

\* C14: bytes left unterminated when the stream is closed are discarded: the
\* read that finds them starts no prompt turn and takes no quit, even when
\* they are a complete JSON prompt or quit.
C14_PartialLineDiscarded ==
    [][ FinalPartialRead =>
          /\ ~(pc = "recv" /\ pc' = "engine")
          /\ chatErr' # "nil" ]_vars

----------------------------------------------------------------------------
(* C15 *)

\* C15: when the gate's read meets the end of stdin or a read error, the
\* session ends with an error there and then; the engine is not resumed.
C15_GateReadFailureFatal ==
    (lastRead.by = "gate" /\ lastRead.got \in {"eof", "err"}) =>
        (Terminated /\ chatErr = "err" /\ hostClosed)

----------------------------------------------------------------------------
(* C16 *)

\* the loop accepts a prompt
PromptAccepted == pc = "recv" /\ pc' = "engine"

\* C16: turn state is fresh per prompt.  A turn starts with the flag unset and
\* its context not canceled, whatever the turn before left; in a turn in
\* which no deny-tool-run has been read a tool call completing without error
\* is reported as tool-result-ok and an engine error ends the session.
C16_FreshTurnState ==
    /\ [][ /\ (PromptAccepted => (~promptCanceled' /\ ~promptCtxDone'))
           /\ (ToolResultStep /\ ~denySeen /\ ~lastIsError' /\ stdoutOk' =>
                 Emits(Message(msgTypeResultOK, toolPending)))
           /\ (EngineReturnStep /\ promptErr' /\ ~denySeen =>
                 (pc' = "exited" /\ chatErr' = "err")) ]_vars
    /\ [](InTurn /\ ~denySeen => (~promptCanceled /\ ~promptCtxDone))

\* a tool call was denied in the first turn; in the second turn the engine
\* failed and the session ended with the error
C16_Witness ==
    /\ turnsDone = 1 /\ Count(msgTypeResultCanceled) = 1
    /\ lastRead = [by |-> "loop", got |-> "msg", kind |-> msgTypePrompt]
    /\ ~denySeen /\ ~promptCanceled /\ promptErr
    /\ Terminated /\ chatErr = "err"

----------------------------------------------------------------------------
(* C17 *)

\* the kinds written during a prompt turn
C17_TurnKinds ==
    { msgTypeChunk, msgTypeConfirm, msgTypeResultOK, msgTypeResultFailed,
      msgTypeResultCanceled }

\* C17: no ready while a prompt turn is in progress.  From the acceptance of a
\* prompt to the return of the engine call, every line written is a chunk, a
\* confirm-tool-run or one of the three tool results.
C17_NoReadyInTurn ==
    /\ [][ InTurn =>
             \A i \in (Len(out) + 1) .. Len(out') :
                Unmarshal(out'[i]).msg.msg_type \in C17_TurnKinds ]_vars
    /\ [][ InTurn => SubSeq(out', 1, Len(out)) = out ]_vars
    /\ [](InTurn => readySincePrompt = 0)

\* a turn in progress has written a chunk, a request and a result, and the
\* only ready is the one before the prompt
C17_Witness ==
    /\ pc = "engine" /\ turnsDone = 0 /\ Len(out) = 4
    /\ Count(msgTypeReady) = 1 /\ OutKind(1) = msgTypeReady
    /\ Count(msgTypeChunk) = 1 /\ Count(msgTypeConfirm) = 1
    /\ OutKind(4) = msgTypeResultOK

----------------------------------------------------------------------------
(* C18 *)

\* C18: within a turn, with ctx not canceled, the flag is set exactly when
\* promptCtx is canceled; so the kind onToolResult chooses from the context is
\* the kind the flag gives, and an engine error is swallowed exactly when a
\* call completing without error is reported as canceled.
C18_FlagIsContext ==
    [](InTurn /\ ~ctxDone =>
         /\ promptCanceled = promptCtxDone
         /\ \A e \in BOOLEAN :
               ToolResultKind(e, promptCtxDone) = ToolResultKind(e, promptCanceled)
         /\ (~HandlePromptFails(TRUE, promptCanceled)
               <=> ToolResultKind(FALSE, promptCtxDone) = msgTypeResultCanceled))

\* a denied turn: flag and context are both set and the call was reported canceled
C18_Witness ==
    /\ pc = "engine" /\ ~ctxDone
    /\ promptCanceled /\ promptCtxDone
    /\ toolCalls = 1 /\ toolPending = NoTool
    /\ Len(out) > 0 /\ LastOut.msg_type = msgTypeResultCanceled

----------------------------------------------------------------------------
(* C19 *)

\* C19: the agent with the front end, in every interleaving, the unmounting
\* of the component included.  The loop's read only ever gets a
\* prompt and the gate's read only ever gets allow-tool-run or deny-tool-run,
\* the default branches of both switches are never taken, and at most one
\* line the agent has not read is in flight: a prompt while the loop waits, a
\* reply while the gate waits.
C19_ClientKeepsProtocol ==
    /\ [](Len(stdin) <= 1)
    /\ [](loopDefaults = 0)
    /\ [](lastRead.by = "loop" =>
            (lastRead.got = "msg" /\ lastRead.kind = msgTypePrompt))
    /\ [](lastRead.by = "gate" =>
            (lastRead.got = "msg" /\ lastRead.kind \in {msgTypeAllow, msgTypeDeny}))
    /\ [](stdin # << >> =>
            LET k == Unmarshal(Head(stdin)).msg.msg_type
            IN  \/ k = msgTypePrompt /\ pc = "recv"
                \/ k \in {msgTypeAllow, msgTypeDeny} /\ pc = "gate")

----------------------------------------------------------------------------
(* C20 *)

\* the kind the loop's read is about to get, for a line json.Unmarshal accepts
LoopReadsKind(k) ==
    /\ LoopReadStep
    /\ stdin # << >>
    /\ ~Unmarshal(Head(stdin)).err
    /\ Unmarshal(Head(stdin)).msg.msg_type = k

\* C20: every line is consumed by exactly one read and never delivered again.
\* The stream only changes by the peer appending a line or by a read taking
\* the first one; a quit read by the gate does not end the session and a
\* prompt read by the gate starts no turn, the engine going on un-canceled; an
\* allow-tool-run or deny-tool-run read by the loop changes no turn state.
C20_EachMessageReadOnce ==
    [][ /\ (stdin' # stdin =>
              \/ \E l \in PeerLines : stdin' = Append(stdin, l) /\ pc' = pc
              \/ (LoopReadStep \/ GateReadStep) /\ stdin # << >>
                                                /\ stdin' = Tail(stdin))
        /\ ((LoopReadStep \/ GateReadStep) /\ stdin # << >> => stdin' = Tail(stdin))
        /\ (GateReadStep /\ stdin # << >>
                /\ GateKind \in {msgTypeQuit, msgTypePrompt} =>
              /\ pc' = "engine" /\ chatErr' = "none" /\ ~hostClosed'
              /\ out' = out
              /\ UNCHANGED << promptCanceled, promptCtxDone, toolPending,
                              turnsDone, readySincePrompt >>)
        /\ (LoopReadsKind(msgTypeAllow) \/ LoopReadsKind(msgTypeDeny) =>
              /\ pc' = "ready" /\ chatErr' = "none"
              /\ UNCHANGED << turnVars, toolCalls, gateReads, turnsDone >>) ]_vars

\* the gate read a prompt: no turn was started, the engine goes on, and the
\* line is gone from the stream
C20_Witness ==
    /\ lastRead = [by |-> "gate", got |-> "msg", kind |-> msgTypePrompt]
    /\ pc = "engine" /\ turnsDone = 0 /\ toolCalls = 1 /\ gateReads = 1
    /\ nSent = 2 /\ stdin = << >>
    /\ ~promptCanceled /\ chatErr = "none"

====
